---- MODULE Spec2Model ----
(***************************************************************************)
(* Plan lifecycle and week resolution of the fitness backend.              *)
(*                                                                         *)
(* Time is measured in hours: every date of the model is a whole number of *)
(* hours, so that 24 * 60 * 60 * 1000 ms of the source is DAY = 24 here.   *)
(* The plan collection is a function from plan ids to documents; resp is   *)
(* the response to the request handled by the last step (NoResp when the   *)
(* step answered none); entries holds the weight, steps, workout and meal  *)
(* documents. A handler is one step up to each database call it awaits:    *)
(* the requests between two of their steps are in inflight, and the steps  *)
(* of other requests and of the clock come between them. Spec has the plan *)
(* requests of one user, SpecSeq the requests handled one at a time,       *)
(* SpecRace and SpecUsers the requests of one moment, SpecCreate the       *)
(* bodies of a create and SpecDays one plan day by day. SpecLog, SpecRead, *)
(* SpecUpdate, SpecSteps, SpecStepsRace and SpecWeek have the logging      *)
(* requests, and SpecDB the requests that share the database connection.   *)
(***************************************************************************)
EXTENDS Integers, FiniteSets, Sequences, TLC

\* ---------------------------------------------------------------- bounds
MaxTick == 2          \* clock horizon, in ticks
TickLen == 12         \* hours the clock advances per tick
MaxPlans == 2         \* plan ids in use at a time
MaxInflight == 2      \* requests in flight at a time
MaxDays == 21         \* clock horizon of the day-by-day runs, in days
MaxEntries == 2       \* log entry ids in use at a time
MaxCallers == 4       \* requests that pass the connection middleware

\* ------------------------------------------------------- program constants
DAY == 24             \* one day, in hours
WEEK_DAYS == 7
MIN_WEEKS == 1
MAX_WEEKS == 52
DEFAULT_WEEK == 1
DEFAULT_STEPS_GOAL == 10000
NULL == -1            \* pausedAt: null

Users == {1, 2}
StartDates == {NULL, -6 * DAY, DAY}    \* req.body.startDate; NULL: not in the body
WeeksIn == {0, MIN_WEEKS, MIN_WEEKS + 1, MAX_WEEKS + 1}
LIVE == {"active", "paused"}
Callers == 1 .. MaxCallers

\* a request before the connection middleware: pc is its position, promise
\* the attempt it awaits, conn the connection connectDB returned to it and
\* status the status the middleware answered (0: none)
IdleCall == [pc |-> "idle", promise |-> NULL, conn |-> NULL, status |-> 0]
Kinds == {"weight", "steps", "workout", "meal"}
WeekArgs == {NULL, -2, 0, 3}      \* req.body.week; NULL: not in the body

VARIABLES now, plans, resp, inflight, hist, entries, cached, attempts, calls

\* the database connection: the cache, the connection attempts and the
\* requests in the connection middleware
dbvars == <<cached, attempts, calls>>

vars == <<now, plans, resp, inflight, hist, entries, dbvars>>

\* ---------------------------------------------------------------- helpers
Min(S) == CHOOSE x \in S : \A y \in S : x <= y

Floor(a, b) == a \div b

\* date.setHours(0, 0, 0, 0)
startOfDay(t) == Floor(t, DAY) * DAY

Clamp(w, lo, hi) == IF (IF w > lo THEN w ELSE lo) < hi
                    THEN (IF w > lo THEN w ELSE lo) ELSE hi

\* (mutant: the paused days are not subtracted)
rawWeekNoPausedDays(plan, t) ==
    LET diffTime == t - plan.startDate
        diffDays == Floor(diffTime, DAY)
    IN  Floor(diffDays, WEEK_DAYS) + 1

\* week by elapsed non-paused time, before clamping
rawWeek(plan, t) ==
    LET diffTime == t - plan.startDate - plan.pausedDays * DAY
        diffDays == Floor(diffTime, DAY)
    IN  Floor(diffDays, WEEK_DAYS) + 1

\* mutants of calculateCurrentWeek: no clamp; the week counted from 0
calculateCurrentWeekNoClamp(plan, t) ==
    IF plan.status = "paused" THEN plan.currentWeek ELSE rawWeek(plan, t)

calculateCurrentWeekNoPlusOne(plan, t) ==
    IF plan.status = "paused" THEN plan.currentWeek
    ELSE Clamp(rawWeek(plan, t) - 1, 1, plan.numberOfWeeks)

calculateCurrentWeek(plan, t) ==
    IF plan.status = "paused" THEN plan.currentWeek
    ELSE Clamp(rawWeek(plan, t), 1, plan.numberOfWeeks)

isCompleted(plan, t) == calculateCurrentWeek(plan, t) > plan.numberOfWeeks

\* (mutant: no upper limit)
ValidWeeksNoMax(n) == n >= MIN_WEEKS

\* schema validation of startDate: required
ValidStart(sd) == sd # NULL

\* schema validation of numberOfWeeks on create and save
ValidWeeks(n) == n >= MIN_WEEKS /\ n <= MAX_WEEKS

\* ids of the documents matching a query on owner and status
Matching(ps, u, statuses) ==
    {i \in DOMAIN ps : ps[i].userId = u /\ ps[i].status \in statuses}

\* Plan.findOne({userId, status}): the ids it may return, {0} (null) when no
\* document matches; the query has no sort, so any match may be the one
FindOne(ps, u, statuses) ==
    IF Matching(ps, u, statuses) = {} THEN {0} ELSE Matching(ps, u, statuses)

\* (mutant: the owner is not part of the query)
FindOwnedAnyUser(ps, id, u) ==
    IF id \in DOMAIN ps THEN id ELSE 0

\* Plan.findOne({_id, userId})
FindOwned(ps, id, u) ==
    IF id \in DOMAIN ps /\ ps[id].userId = u THEN id ELSE 0

\* goals of the schema: no targetWeight, and the defaults of the other two
DefaultGoals ==
    [targetWeight |-> NULL, dailyStepsGoal |-> DEFAULT_STEPS_GOAL,
     weeklyWorkoutGoal |-> 4]

\* req.body.goals: the fields it has; NoGoals: no goals in the body
NoGoals == [none |-> TRUE]

GoalsIn ==
    {NoGoals, [dailyStepsGoal |-> 8000],
     [targetWeight |-> 70, weeklyWorkoutGoal |-> 5]}

\* req.body.dietPlan, a diet plan being its totalCalories; NULL: not in the body
DietsIn == {NULL, 1800, 2200}

\* { ...plan.goals, ...goals }
mergeGoals(old, g) ==
    [f \in DOMAIN old \cup DOMAIN g |-> IF f \in DOMAIN g THEN g[f] ELSE old[f]]

\* the document Plan.create stores: schema defaults for the other fields; a
\* dietPlan is its totalCalories
NewPlan(u, sd, nw) ==
    [userId |-> u, startDate |-> sd, numberOfWeeks |-> nw,
     currentWeek |-> DEFAULT_WEEK, status |-> "active",
     pausedAt |-> NULL, pausedDays |-> 0,
     dietPlan |-> 0, goals |-> DefaultGoals]

\* a response: the route that answers, the HTTP status and the _id of the
\* plan returned (0 when none)
NoResp == [op |-> "none", status |-> 0, id |-> 0]

Resp(op, st, id) == [op |-> op, status |-> st, id |-> id]

\* history of a paused plan: the week it had by elapsed time at the moment of
\* the pause, and its numberOfWeeks at that moment
NoHist == [week |-> 0, weeks |-> 0]

Put(f, k, v) == [x \in DOMAIN f \cup {k} |-> IF x = k THEN v ELSE f[x]]
Drop(f, k) == [x \in DOMAIN f \ {k} |-> f[x]]

\* ------------------------------------------------------------------- Init
Init ==
    /\ now = 0
    /\ plans = << >>
    /\ resp = NoResp
    /\ inflight = {}
    /\ hist = << >>
    /\ entries = << >>
    /\ cached = [conn |-> NULL, promise |-> NULL]
    /\ attempts = << >>
    /\ calls = [c \in Callers |-> IdleCall]

\* ------------------------------------------------------ requests in flight
\* A handler runs up to its first await in one step and from there to its
\* response in another: the requests between the two are in flight, each
\* with what its handler holds in memory. slot tells apart two requests that
\* hold the same; id is the _id of the plan the handler found (0: none).
FreeSlot == Min((1 .. MaxInflight) \ {r.slot : r \in inflight})

\* the plan ids in use: those of the stored plans, those the requests in
\* flight hold and those the stored entries carry as planId
HeldIds ==
    (DOMAIN plans \cup {r.id : r \in inflight}
                  \cup {entries[e].planId : e \in DOMAIN entries})
       \cap (1 .. MaxPlans)

\* the _id of a new plan: an ObjectId is not used twice, so that no stored
\* document and no request carries it
FreshId == Min((1 .. MaxPlans) \ HeldIds)

\* the request of a handler that found plan id at time t, read as old and
\* changed to doc in memory; body: what the handler uses of req.body
PlanRequest(op, u, id, old, doc, t, body) ==
    [slot |-> FreeSlot, op |-> op, user |-> u, id |-> id,
     old |-> old, doc |-> doc, at |-> t, body |-> body]

\* plan.save() as seen in the collection: the paths the handler changed are
\* set in the stored document, the others are left as stored
SaveDoc(stored, old, doc) ==
    [f \in DOMAIN stored |-> IF doc[f] # old[f] THEN doc[f] ELSE stored[f]]

\* a body the handler does not read
NoBody == [none |-> TRUE]

\* ---------------------------------------------------------------- actions
Tick ==
    /\ now < MaxTick * TickLen
    /\ now' = now + TickLen
    /\ resp' = NoResp
    /\ UNCHANGED <<plans, inflight, hist, entries, dbvars>>

\* the write of POST /api/plan: Plan.create and its response
CreateDoc(u, sd, nw) ==
    IF ValidWeeks(nw) /\ ValidStart(sd)
    THEN /\ plans' = Put(plans, FreshId, NewPlan(u, sd, nw))
         /\ hist' = Put(hist, FreshId, NoHist)
         /\ resp' = Resp("create", 201, FreshId)
    ELSE /\ resp' = Resp("create", 500, 0)
         /\ UNCHANGED <<plans, hist>>

\* the request POST /api/plan leaves in flight after its existence check
CreateRequest(u, sd, nw) ==
    [slot |-> FreeSlot, op |-> "create", user |-> u, id |-> 0,
     startDate |-> sd, numberOfWeeks |-> nw]

\* there is room for one more request, and for the plan it may store
Room ==
    /\ Cardinality(inflight) < MaxInflight
    /\ Cardinality(HeldIds)
         + Cardinality({r \in inflight : r.op = "create"}) < MaxPlans

\* mutants of CreateCheck: the check misses paused plans; the conflict branch
\* does not return
CreateCheckActiveOnly(u, sd, nw) ==
    /\ IF FindOne(plans, u, {"active"}) # {0}
       THEN /\ resp' = Resp("create", 400, 0)
            /\ UNCHANGED inflight
       ELSE /\ Room
            /\ inflight' = inflight \cup {CreateRequest(u, sd, nw)}
            /\ resp' = NoResp
    /\ UNCHANGED <<now, plans, hist, entries, dbvars>>

CreateCheckNoReturn(u, sd, nw) ==
    /\ Room
    /\ inflight' = inflight \cup {CreateRequest(u, sd, nw)}
    /\ resp' = IF FindOne(plans, u, LIVE) # {0}
               THEN Resp("create", 400, 0) ELSE NoResp
    /\ UNCHANGED <<now, plans, hist, entries, dbvars>>

\* POST /api/plan, first step: the existence check (lines 18-28)
CreateCheck(u, sd, nw) ==
    /\ IF FindOne(plans, u, LIVE) # {0}
       THEN /\ resp' = Resp("create", 400, 0)
            /\ UNCHANGED inflight
       ELSE /\ Room
            /\ inflight' = inflight \cup {CreateRequest(u, sd, nw)}
            /\ resp' = NoResp
    /\ UNCHANGED <<now, plans, hist, entries, dbvars>>

\* POST /api/plan, second step: Plan.create (lines 30-41)
\* (mutant: the write is refused when a live plan exists by then)
CreateWriteRecheck(r) ==
    /\ r \in inflight /\ r.op = "create"
    /\ inflight' = inflight \ {r}
    /\ IF FindOne(plans, r.user, LIVE) # {0}
       THEN /\ resp' = Resp("create", 400, 0)
            /\ UNCHANGED <<plans, hist>>
       ELSE CreateDoc(r.user, r.startDate, r.numberOfWeeks)
    /\ UNCHANGED <<now, entries, dbvars>>

CreateWrite(r) ==
    /\ r \in inflight /\ r.op = "create"
    /\ inflight' = inflight \ {r}
    /\ CreateDoc(r.user, r.startDate, r.numberOfWeeks)
    /\ UNCHANGED <<now, entries, dbvars>>

\* (mutant: the fetch stores the week it computed)
GetPlanStoresWeek(u) ==
    \E id \in FindOne(plans, u, LIVE) :
    /\ IF id = 0
       THEN /\ resp' = Resp("get", 404, 0)
            /\ UNCHANGED plans
       ELSE /\ plans' = [plans EXCEPT ![id].currentWeek =
                                       calculateCurrentWeek(plans[id], now)]
            /\ resp' = Resp("get", 200, id)
    /\ UNCHANGED <<now, inflight, hist, entries, dbvars>>

\* GET /api/plan. The save of the completion branch is the handler's second
\* await; the branch is taken when the computed week exceeds numberOfWeeks
GetPlan(u) ==
    \E id \in FindOne(plans, u, LIVE) :
    /\ IF id = 0
       THEN /\ resp' = Resp("get", 404, 0)
            /\ UNCHANGED plans
       ELSE LET plan == plans[id]
                currentWeek == calculateCurrentWeek(plan, now)
                saved == IF plan.status = "active"
                            /\ currentWeek > plan.numberOfWeeks
                         THEN [plan EXCEPT !.status = "completed"]
                         ELSE plan
            IN  /\ plans' = [plans EXCEPT ![id] = saved]
                /\ resp' = Resp("get", 200, id)
    /\ UNCHANGED <<now, inflight, hist, entries, dbvars>>

\* GET /api/plan/:id
GetPlanById(u, pid) ==
    LET id == FindOwned(plans, pid, u) IN
    /\ resp' = IF id = 0 THEN Resp("getById", 404, 0) ELSE Resp("getById", 200, id)
    /\ UNCHANGED <<now, plans, inflight, hist, entries, dbvars>>

\* GET /api/plan/all: every plan of the caller with its computed week
GetAllPlans(u) ==
    /\ resp' = Resp("getAll", 200, 0)
    /\ UNCHANGED <<now, plans, inflight, hist, entries, dbvars>>

\* GET /api/plan/progress/summary
ProgressSummary(u) ==
    /\ \E id \in FindOne(plans, u, LIVE) :
          resp' = IF id = 0 THEN Resp("progress", 404, 0)
                  ELSE Resp("progress", 200, id)
    /\ UNCHANGED <<now, plans, inflight, hist, entries, dbvars>>

\* the queries GET /api/analytics/overview awaits, in their order
OverviewQueries ==
    <<"Plan.findOne", "Weight.findOne", "Weight.findOne", "Steps.findOne",
      "Workout.countDocuments", "Meal.find", "Workout.countDocuments",
      "Steps.aggregate", "Steps.find">>

\* no plan found
NoPlan == [status |-> "none"]

\* GET /api/analytics/overview, first step: the plan is looked up (lines
\* 21-25). The request holds the plan found (0: none) and waits for the
\* query of index waits; today is the day it computes after the third
\* query
OverviewFind(u) ==
    /\ Cardinality(inflight) < MaxInflight
    /\ \E id \in FindOne(plans, u, LIVE) :
          inflight' = inflight \cup
             {[slot |-> FreeSlot, op |-> "overview", user |-> u, id |-> id,
               old |-> IF id = 0 THEN NoPlan ELSE plans[id],
               waits |-> 2, today |-> NULL]}
    /\ resp' = NoResp
    /\ UNCHANGED <<now, plans, hist, entries, dbvars>>

\* GET /api/analytics/overview, the step of each later query: its reply
\* goes into the response, of which resp has the part on the plan; after the
\* last one the handler answers with the plan it holds, stored or not
\* (lines 28-116)
OverviewRead(r) ==
    /\ r \in inflight /\ r.op = "overview"
    /\ IF r.waits < Len(OverviewQueries)
       THEN /\ inflight' = (inflight \ {r}) \cup
                  {[r EXCEPT !.waits = r.waits + 1,
                             !.today = IF r.waits = 3 THEN startOfDay(now)
                                       ELSE r.today]}
            /\ resp' = NoResp
       ELSE /\ inflight' = inflight \ {r}
            /\ resp' = Resp("overview", 200, r.id)
    /\ UNCHANGED <<now, plans, hist, entries, dbvars>>

\* the first step of a handler that found plan id (0: none, answered 404) and
\* changed it to doc in memory
FindStep(op, u, id, doc, body) ==
    IF id = 0
    THEN /\ resp' = Resp(op, 404, 0)
         /\ UNCHANGED inflight
    ELSE /\ Cardinality(inflight) < MaxInflight
         /\ inflight' = inflight \cup
               {PlanRequest(op, u, id, plans[id], doc, now, body)}
         /\ resp' = NoResp

\* the second step of such a handler: plan.save() validates, then writes the
\* changed paths; it fails when the document is stored no more. h is the
\* history of the plan from then on
SaveStep(r, h) ==
    /\ inflight' = inflight \ {r}
    /\ IF ValidWeeks(r.doc.numberOfWeeks) /\ r.id \in DOMAIN plans
       THEN /\ plans' = [plans EXCEPT ![r.id] = SaveDoc(plans[r.id], r.old, r.doc)]
            /\ hist' = [hist EXCEPT ![r.id] = h]
            /\ resp' = Resp(r.op, 200, r.id)
       ELSE /\ resp' = Resp(r.op, 500, 0)
            /\ UNCHANGED <<plans, hist>>

\* the document PUT /api/plan/pause saves: status and pausedAt are assigned
\* before the week is computed
pausedDoc(plan, t) ==
    LET p1 == [plan EXCEPT !.status = "paused"]
        p2 == [p1 EXCEPT !.pausedAt = t]
    IN  [p2 EXCEPT !.currentWeek = calculateCurrentWeek(p2, t)]

\* (mutant: a paused plan is paused again)
PauseFindAny(u) ==
    /\ \E id \in FindOne(plans, u, LIVE) :
          FindStep("pause", u, id,
                   IF id = 0 THEN NoHist ELSE pausedDoc(plans[id], now), NoBody)
    /\ UNCHANGED <<now, plans, hist, entries, dbvars>>

\* PUT /api/plan/pause, first step: the active plan is looked up and changed
\* in memory (lines 139-153)
PauseFind(u) ==
    /\ \E id \in FindOne(plans, u, {"active"}) :
          FindStep("pause", u, id,
                   IF id = 0 THEN NoHist ELSE pausedDoc(plans[id], now), NoBody)
    /\ UNCHANGED <<now, plans, hist, entries, dbvars>>

\* PUT /api/plan/pause, second step: plan.save() and the response (line 154)
PauseSave(r) ==
    /\ r \in inflight /\ r.op = "pause"
    /\ SaveStep(r, [week |-> calculateCurrentWeek(r.old, r.at),
                    weeks |-> r.old.numberOfWeeks])
    /\ UNCHANGED <<now, entries, dbvars>>

\* a Date used as a number: null counts as 0
DateMs(d) == IF d = NULL THEN 0 ELSE d

\* whole days between the pause and t
daysPaused(plan, t) == Floor(t - DateMs(plan.pausedAt), DAY)

\* the document PUT /api/plan/resume saves
\* (mutant: pausedAt not cleared)
resumedDocKeepsPausedAt(plan, t) ==
    [plan EXCEPT !.pausedDays = plan.pausedDays + daysPaused(plan, t),
                 !.status = "active"]

resumedDoc(plan, t) ==
    [plan EXCEPT !.pausedDays = plan.pausedDays + daysPaused(plan, t),
                 !.status = "active", !.pausedAt = NULL]

\* PUT /api/plan/resume, first step: the paused plan is looked up and changed
\* in memory (lines 171-189)
ResumeFind(u) ==
    /\ \E id \in FindOne(plans, u, {"paused"}) :
          FindStep("resume", u, id,
                   IF id = 0 THEN NoHist ELSE resumedDoc(plans[id], now), NoBody)
    /\ UNCHANGED <<now, plans, hist, entries, dbvars>>

\* PUT /api/plan/resume, second step: plan.save() and the response (line 190)
ResumeSave(r) ==
    /\ r \in inflight /\ r.op = "resume"
    /\ SaveStep(r, NoHist)
    /\ UNCHANGED <<now, entries, dbvars>>

\* the document PUT /api/plan/:id is about to save
updatedDoc(plan, dp, g, nw, t) ==
    LET p1 == IF dp # NULL THEN [plan EXCEPT !.dietPlan = dp] ELSE plan
        p2 == IF g # NoGoals
              THEN [p1 EXCEPT !.goals = mergeGoals(p1.goals, g)] ELSE p1
    IN  IF nw # 0 /\ nw >= calculateCurrentWeek(p2, t)
        THEN [p2 EXCEPT !.numberOfWeeks = nw]
        ELSE p2

\* PUT /api/plan/:id, first step: the plan is looked up and changed in memory
\* (lines 212-228)
UpdateFind(u, pid, dp, g, nw) ==
    /\ FindStep("update", u, FindOwned(plans, pid, u),
                IF FindOwned(plans, pid, u) = 0 THEN NoHist
                ELSE updatedDoc(plans[pid], dp, g, nw, now),
                [dietPlan |-> dp, goals |-> g, numberOfWeeks |-> nw])
    /\ UNCHANGED <<now, plans, hist, entries, dbvars>>

\* PUT /api/plan/:id, second step: plan.save() and the response (line 230)
UpdateSave(r) ==
    /\ r \in inflight /\ r.op = "update"
    /\ SaveStep(r, IF r.id \in DOMAIN hist THEN hist[r.id] ELSE NoHist)
    /\ UNCHANGED <<now, entries, dbvars>>

\* (mutant: the entries stamped with the plan are deleted with it)
DeletePlanCascade(u, pid) ==
    LET id == FindOwned(plans, pid, u) IN
    /\ IF id = 0
       THEN /\ resp' = Resp("delete", 404, 0)
            /\ UNCHANGED <<plans, hist, entries>>
       ELSE /\ plans' = Drop(plans, id)
            /\ hist' = Drop(hist, id)
            /\ entries' = [e \in {x \in DOMAIN entries : entries[x].planId # id}
                             |-> entries[e]]
            /\ resp' = Resp("delete", 200, id)
    /\ UNCHANGED <<now, inflight, dbvars>>

\* DELETE /api/plan/:id: findOneAndDelete
DeletePlan(u, pid) ==
    LET id == FindOwned(plans, pid, u) IN
    /\ IF id = 0
       THEN /\ resp' = Resp("delete", 404, 0)
            /\ UNCHANGED <<plans, hist>>
       ELSE /\ plans' = Drop(plans, id)
            /\ hist' = Drop(hist, id)
            /\ resp' = Resp("delete", 200, id)
    /\ UNCHANGED <<now, inflight, entries, dbvars>>

\* the second step of a plan request in flight
Finish(r) ==
    \/ CreateWrite(r)
    \/ PauseSave(r)
    \/ ResumeSave(r)
    \/ UpdateSave(r)

Next ==
    \/ Tick
    \/ \E sd \in {NULL, -6 * DAY}, nw \in {2, 53} : CreateCheck(1, sd, nw)
    \/ \E r \in inflight : CreateWrite(r)
    \/ GetPlan(1)
    \/ PauseFind(1)
    \/ \E r \in inflight : PauseSave(r)
    \/ ResumeFind(1)
    \/ \E r \in inflight : ResumeSave(r)
    \/ \E nw \in {1, 53} : UpdateFind(1, 1, NULL, NoGoals, nw)
    \/ \E r \in inflight : UpdateSave(r)
    \/ DeletePlan(1, 1)

\* the plan requests of one user: between the two steps of a request the
\* clock advances and other requests are handled
Spec == Init /\ [][Next]_vars

NextCreate ==
    \/ Tick
    \/ \E sd \in StartDates, nw \in WeeksIn : CreateCheck(1, sd, nw)
    \/ \E r \in inflight : CreateWrite(r)
    \/ GetPlan(1)
    \/ PauseFind(1)
    \/ \E r \in inflight : PauseSave(r)
    \/ \E pid \in 1 .. MaxPlans : DeletePlan(1, pid)

\* plans created with every kind of body, fetched, paused and deleted
SpecCreate == Init /\ [][NextCreate]_vars

NextSeq ==
    \/ Tick
    \/ /\ inflight = {}
       /\ \/ \E u \in Users, sd \in StartDates, nw \in WeeksIn : CreateCheck(u, sd, nw)
          \/ \E u \in Users : GetPlan(u)
          \/ \E u \in Users : PauseFind(u)
          \/ \E u \in Users : ResumeFind(u)
          \/ \E u \in Users, pid \in 1 .. MaxPlans, nw \in WeeksIn :
                UpdateFind(u, pid, NULL, NoGoals, nw)
          \/ \E u \in Users, pid \in 1 .. MaxPlans : DeletePlan(u, pid)
    \/ \E r \in inflight : Finish(r)

\* requests processed one at a time: a request is started when no request is
\* in flight
SpecSeq == Init /\ [][NextSeq]_vars

NextRace ==
    \/ \E sd \in {-6 * DAY}, nw \in {0, 2} : CreateCheck(1, sd, nw)
    \/ \E r \in inflight : CreateWrite(r)
    \/ PauseFind(1)
    \/ \E r \in inflight : PauseSave(r)
    \/ ResumeFind(1)
    \/ \E r \in inflight : ResumeSave(r)
    \/ \E pid \in 1 .. MaxPlans : DeletePlan(1, pid)

\* simultaneous requests of one user at one moment
SpecRace == Init /\ [][NextRace]_vars

NextUsers ==
    \/ \E u \in Users : CreateCheck(u, -6 * DAY, 2)
    \/ \E r \in inflight : CreateWrite(r)
    \/ \E u \in Users : GetPlan(u)
    \/ \E u \in Users, pid \in 1 .. MaxPlans : GetPlanById(u, pid)
    \/ \E u \in Users : PauseFind(u)
    \/ \E r \in inflight : PauseSave(r)
    \/ \E u \in Users : ResumeFind(u)
    \/ \E r \in inflight : ResumeSave(r)
    \/ \E u \in Users, pid \in 1 .. MaxPlans : UpdateFind(u, pid, 1800, NoGoals, 0)
    \/ \E r \in inflight : UpdateSave(r)
    \/ \E u \in Users, pid \in 1 .. MaxPlans : DeletePlan(u, pid)

\* the requests of two users on their plans and on each other's, at one moment
SpecUsers == Init /\ [][NextUsers]_vars

\* ------------------------------------------------------------ log entries
\* a value that counts as true in "week || ..."
Truthy(x) == x # NULL /\ x # 0

\* (mutant: the computed week wins over the week of the body)
entryWeekComputedFirst(week, ps, id, t) ==
    IF id # 0 THEN calculateCurrentWeek(ps[id], t)
    ELSE IF Truthy(week) THEN week ELSE DEFAULT_WEEK

\* (mutant: the stored week of the plan instead of the computed one)
entryWeekStored(week, ps, id, t) ==
    IF Truthy(week) THEN week
    ELSE IF id # 0 THEN ps[id].currentWeek ELSE DEFAULT_WEEK

\* week || (plan ? plan.calculateCurrentWeek() : 1), id being the plan found
entryWeek(week, ps, id, t) ==
    IF Truthy(week) THEN week
    ELSE IF id # 0 THEN calculateCurrentWeek(ps[id], t) ELSE DEFAULT_WEEK

\* schema validation of an entry's week
ValidEntryWeek(w) == w >= 1

\* the logged document: planId 0 stands for no planId
NewEntry(kind, u, id, w, d) ==
    [kind |-> kind, userId |-> u, planId |-> id, week |-> w, date |-> d]

\* the requests in flight that may store an entry
Logging == {r \in inflight : r.op \in Kinds \cup {"upload"}}

\* the entry ids the requests in flight hold: those of the entries that
\* POST /api/steps requests found
FoundIds == {r.found : r \in {x \in inflight : x.op = "steps"}} \cap (1 .. MaxEntries)

\* the _id of a new entry in the collection es: an ObjectId is not used twice
NewEntryId(es) == Min((1 .. MaxEntries) \ (DOMAIN es \cup FoundIds))

\* there is room for one more request, and for the entry it may store
EntryRoom ==
    /\ Cardinality(inflight) < MaxInflight
    /\ Cardinality(DOMAIN entries \cup FoundIds) + Cardinality(Logging)
          < MaxEntries

\* the request a logging handler leaves in flight after Plan.findOne: the
\* plan found (0: none), the week of the body (arg), the week and the date
\* of the entry; ok: the body passes the validation of the other fields
LogRequest(kind, u, id, week, ok) ==
    [slot |-> FreeSlot, op |-> kind, user |-> u, id |-> id, arg |-> week,
     week |-> entryWeek(week, plans, id, now), date |-> now, ok |-> ok]

\* the first step of POST /api/weight, /api/workout and /api/meals: the plan
\* is looked up and the week computed
FindPlan(kind, u, week, ok) ==
    /\ EntryRoom
    /\ \E id \in FindOne(plans, u, LIVE) :
          inflight' = inflight \cup {LogRequest(kind, u, id, week, ok)}
    /\ resp' = NoResp

\* POST /api/weight, first step (lines 340-347); ok: the body has a valid weight
AddWeight(u, week, ok) ==
    /\ FindPlan("weight", u, week, ok)
    /\ UNCHANGED <<now, plans, hist, entries, dbvars>>

\* POST /api/workout, first step (lines 16-23)
AddWorkout(u, week) ==
    /\ FindPlan("workout", u, week, TRUE)
    /\ UNCHANGED <<now, plans, hist, entries, dbvars>>

\* POST /api/meals, first step (lines 27-41); ok: the body has a meal type
\* and items
AddMeal(u, week, ok) ==
    /\ IF ~ok
       THEN /\ resp' = Resp("meal", 400, 0)
            /\ UNCHANGED inflight
       ELSE FindPlan("meal", u, week, TRUE)
    /\ UNCHANGED <<now, plans, hist, entries, dbvars>>

\* the second step of the three: Model.create, which validates first, and
\* the response
CreateEntry(r) ==
    /\ r \in inflight /\ r.op \in {"weight", "workout", "meal"}
    /\ inflight' = inflight \ {r}
    /\ IF r.ok /\ ValidEntryWeek(r.week)
       THEN /\ entries' = Put(entries, NewEntryId(entries),
                              NewEntry(r.op, r.user, r.id, r.week, r.date))
            /\ resp' = Resp(r.op, 201, NewEntryId(entries))
       ELSE /\ resp' = Resp(r.op, 500, 0)
            /\ UNCHANGED entries
    /\ UNCHANGED <<now, plans, hist, dbvars>>

\* the steps entries of user u for date d
StepsOf(es, u, d) ==
    {e \in DOMAIN es : es[e].kind = "steps" /\ es[e].userId = u /\ es[e].date = d}

\* schema validation of a steps count: required, 0 to 100000
ValidCount(c) == c # NULL /\ c >= 0 /\ c <= 100000

\* goal || plan?.goals?.dailyStepsGoal || 10000, id being the plan found
stepsGoal(goal, ps, id) ==
    IF Truthy(goal) THEN goal
    ELSE IF id # 0 /\ Truthy(ps[id].goals.dailyStepsGoal)
         THEN ps[id].goals.dailyStepsGoal
         ELSE DEFAULT_STEPS_GOAL

\* the steps document: an entry with its count and goal
NewStepsEntry(u, id, w, d, count, goal) ==
    [kind |-> "steps", userId |-> u, planId |-> id, week |-> w, date |-> d,
     count |-> count, goal |-> goal]

\* no entry found
NoEntry == [kind |-> "none"]

\* the entry of the date as POST /api/steps changes it in memory
\* (mutant: stamped anew)
savedStepsRestamped(entry, id, w, count, goal) ==
    [entry EXCEPT !.count = count, !.goal = goal, !.week = w, !.planId = id]

savedSteps(entry, id, w, count, goal) ==
    [entry EXCEPT !.count = count, !.goal = goal]

\* POST /api/steps, first step: the date of the entry is the day of the
\* arrival (no date in the body), computed before the plan is looked up
\* (lines 16-20). arg and goalArg: week and goal of the body; id, week and
\* goal: the plan, not looked up yet, and what is computed from it; found:
\* the entry of the date, not looked up yet
AddSteps(u, week, count, goal) ==
    /\ EntryRoom
    /\ inflight' = inflight \cup
          {[slot |-> FreeSlot, op |-> "steps", user |-> u, id |-> NULL,
            arg |-> week, week |-> NULL,
            date |-> startOfDay(now), count |-> count,
            goalArg |-> goal, goal |-> NULL,
            found |-> NULL, old |-> NoEntry]}
    /\ resp' = NoResp
    /\ UNCHANGED <<now, plans, hist, entries, dbvars>>

\* POST /api/steps, second step: the plan is looked up, the week and the
\* goal computed (lines 22-28)
StepsPlan(r) ==
    /\ r \in inflight /\ r.op = "steps" /\ r.id = NULL
    /\ \E id \in FindOne(plans, r.user, LIVE) :
          inflight' = (inflight \ {r}) \cup
             {[r EXCEPT !.id = id,
                        !.week = entryWeek(r.arg, plans, id, now),
                        !.goal = stepsGoal(r.goalArg, plans, id)]}
    /\ resp' = NoResp
    /\ UNCHANGED <<now, plans, hist, entries, dbvars>>

\* POST /api/steps, third step: the entry of the date is looked up
\* (lines 30-34)
StepsCheck(r) ==
    /\ r \in inflight /\ r.op = "steps" /\ r.id # NULL /\ r.found = NULL
    /\ \E e \in (IF StepsOf(entries, r.user, r.date) = {}
                 THEN {0} ELSE StepsOf(entries, r.user, r.date)) :
          inflight' = (inflight \ {r}) \cup
             {[r EXCEPT !.found = e,
                        !.old = IF e = 0 THEN NoEntry ELSE entries[e]]}
    /\ resp' = NoResp
    /\ UNCHANGED <<now, plans, hist, entries, dbvars>>

\* the write of POST /api/steps: the save of the entry found, which
\* validates, then writes the changed paths; or Steps.create
WriteSteps(r) ==
    IF r.found # 0
    THEN IF ValidCount(r.count) /\ r.found \in DOMAIN entries
         THEN /\ entries' = [entries EXCEPT ![r.found] =
                    SaveDoc(entries[r.found], r.old,
                            savedSteps(r.old, r.id, r.week, r.count, r.goal))]
              /\ resp' = Resp("steps", 201, r.found)
         ELSE /\ resp' = Resp("steps", 500, 0)
              /\ UNCHANGED entries
    ELSE IF ValidCount(r.count) /\ ValidEntryWeek(r.week)
         THEN /\ entries' = Put(entries, NewEntryId(entries),
                                NewStepsEntry(r.user, r.id, r.week, r.date,
                                              r.count, r.goal))
              /\ resp' = Resp("steps", 201, NewEntryId(entries))
         ELSE /\ resp' = Resp("steps", 500, 0)
              /\ UNCHANGED entries

\* (mutant: no unique index on userId and date)
StepsWriteNoIndex(r) ==
    /\ r \in inflight /\ r.op = "steps" /\ r.found # NULL
    /\ inflight' = inflight \ {r}
    /\ WriteSteps(r)
    /\ UNCHANGED <<now, plans, hist, dbvars>>

\* POST /api/steps, fourth step: the save of the entry found, or
\* Steps.create, which the unique index on userId and date refuses with
\* error 11000 when the date has an entry by then (lines 36-68)
StepsWrite(r) ==
    /\ r \in inflight /\ r.op = "steps" /\ r.found # NULL
    /\ inflight' = inflight \ {r}
    /\ IF /\ r.found = 0
          /\ ValidCount(r.count) /\ ValidEntryWeek(r.week)
          /\ StepsOf(entries, r.user, r.date) # {}
       THEN /\ resp' = Resp("steps", 400, 0)
            /\ UNCHANGED entries
       ELSE WriteSteps(r)
    /\ UNCHANGED <<now, plans, hist, dbvars>>

\* Model.findOne({_id, userId}) in the collection of a kind: 0 when none
FindEntry(es, kind, e, u) ==
    IF e \in DOMAIN es /\ es[e].kind = kind /\ es[e].userId = u THEN e ELSE 0

\* req.body of a request on an entry, as far as the entries of the model go;
\* NULL: not in the body
EntryBody(week, date, count, goal) ==
    [week |-> week, date |-> date, count |-> count, goal |-> goal]

\* the fields of the body that the PUT handler of a kind passes to
\* findOneAndUpdate: PUT /api/steps/:id passes no date
UpdateFields(kind) ==
    IF kind = "steps" THEN {"count", "goal", "week"} ELSE {"date", "week"}

\* the update of the handler of a kind for a body: the fields it sets
SetFields(kind, body) == {f \in UpdateFields(kind) : body[f] # NULL}

\* runValidators: the validators of the fields the update sets
ValidUpdate(kind, body) ==
    /\ "week" \in SetFields(kind, body) => ValidEntryWeek(body.week)
    /\ "count" \in SetFields(kind, body) => ValidCount(body.count)

\* the entry after the update
updatedEntry(entry, kind, body) ==
    [f \in DOMAIN entry |->
        IF f \in SetFields(kind, body) THEN body[f] ELSE entry[f]]

\* (mutant: the update does not run the validators)
UpdateEntryNoValidators(kind, u, e, body) ==
    /\ IF FindEntry(entries, kind, e, u) = 0
       THEN /\ resp' = Resp("put", 404, 0)
            /\ UNCHANGED entries
       ELSE /\ entries' = [entries EXCEPT
                              ![e] = updatedEntry(entries[e], kind, body)]
            /\ resp' = Resp("put", 200, e)
    /\ UNCHANGED <<now, plans, inflight, hist, dbvars>>

\* PUT /api/weight/:id, /api/steps/:id, /api/workout/:id, /api/meals/:id:
\* findOneAndUpdate with runValidators sets the fields of the body when
\* they pass the validation
UpdateEntry(kind, u, e, body) ==
    /\ IF ~ValidUpdate(kind, body)
       THEN /\ resp' = Resp("put", 500, 0)
            /\ UNCHANGED entries
       ELSE IF FindEntry(entries, kind, e, u) = 0
            THEN /\ resp' = Resp("put", 404, 0)
                 /\ UNCHANGED entries
            ELSE /\ entries' = [entries EXCEPT
                                   ![e] = updatedEntry(entries[e], kind, body)]
                 /\ resp' = Resp("put", 200, e)
    /\ UNCHANGED <<now, plans, inflight, hist, dbvars>>

\* DELETE /api/weight/:id, /api/steps/:id, /api/workout/:id, /api/meals/:id:
\* findOneAndDelete
DeleteEntry(kind, u, e) ==
    /\ IF FindEntry(entries, kind, e, u) = 0
       THEN /\ resp' = Resp("remove", 404, 0)
            /\ UNCHANGED entries
       ELSE /\ entries' = Drop(entries, e)
            /\ resp' = Resp("remove", 200, e)
    /\ UNCHANGED <<now, plans, inflight, hist, dbvars>>

\* POST /api/weight/bulk-upload with a file of one row, week being its Week
\* column (NULL: not a number) and its Date column the time of the upload,
\* first step: the plan is looked up and the
\* row parsed; a row without a number counts as an error and leaves no
\* entry to insert (lines 479-521). The week of the row is taken as it is
UploadWeights(u, week) ==
    /\ \E id \in FindOne(plans, u, LIVE) :
          IF week = NULL
          THEN /\ resp' = Resp("upload", 400, 0)
               /\ UNCHANGED inflight
          ELSE /\ EntryRoom
               /\ inflight' = inflight \cup
                     {[slot |-> FreeSlot, op |-> "upload", user |-> u,
                       id |-> id, week |-> week, date |-> now]}
               /\ resp' = NoResp
    /\ UNCHANGED <<now, plans, hist, entries, dbvars>>

\* POST /api/weight/bulk-upload, second step: insertMany, not ordered,
\* leaves out the documents that fail the validation (line 525)
InsertWeights(r) ==
    /\ r \in inflight /\ r.op = "upload"
    /\ inflight' = inflight \ {r}
    /\ IF ValidEntryWeek(r.week)
       THEN /\ entries' = Put(entries, NewEntryId(entries),
                              NewEntry("weight", r.user, r.id, r.week, r.date))
            /\ resp' = Resp("upload", 200, NewEntryId(entries))
       ELSE /\ resp' = Resp("upload", 200, 0)
            /\ UNCHANGED entries
    /\ UNCHANGED <<now, plans, hist, dbvars>>

NextStepsRace ==
    \/ Tick
    \/ CreateCheck(1, -7 * DAY, 2)
    \/ \E r \in inflight : CreateWrite(r)
    \/ \E u \in Users, count \in {NULL, 500} : AddSteps(u, NULL, count, NULL)
    \/ \E r \in inflight : StepsPlan(r)
    \/ \E r \in inflight : StepsCheck(r)
    \/ \E r \in inflight : StepsWrite(r)

\* simultaneous POST /api/steps requests of both users
SpecStepsRace == Init /\ [][NextStepsRace]_vars

\* the bodies of the POST /api/steps requests: a count; a week and another
\* count; no count; a week, a count and a goal
StepsBodies ==
    {EntryBody(NULL, NULL, 500, NULL), EntryBody(3, NULL, 900, NULL),
     EntryBody(NULL, NULL, NULL, NULL), EntryBody(3, NULL, 900, 7000)}

NextSteps ==
    \/ CreateCheck(1, -7 * DAY, 2)
    \/ \E r \in inflight : CreateWrite(r)
    \/ \E pid \in 1 .. MaxPlans : DeletePlan(1, pid)
    \/ \E pid \in 1 .. MaxPlans :
          UpdateFind(1, pid, NULL, [dailyStepsGoal |-> 8000], 0)
    \/ \E r \in inflight : UpdateSave(r)
    \/ \E b \in StepsBodies : AddSteps(1, b.week, b.count, b.goal)
    \/ \E r \in inflight : StepsPlan(r)
    \/ \E r \in inflight : StepsCheck(r)
    \/ \E r \in inflight : StepsWrite(r)
    \/ \E e \in 1 .. MaxEntries : DeleteEntry("steps", 1, e)

\* the steps of one day logged by user 1, who gets, changes and deletes a plan
SpecSteps == Init /\ [][NextSteps]_vars

NextLog ==
    \/ CreateCheck(1, -7 * DAY, 2)
    \/ \E r \in inflight : CreateWrite(r)
    \/ GetPlan(1)
    \/ PauseFind(1)
    \/ \E r \in inflight : PauseSave(r)
    \/ \E pid \in 1 .. MaxPlans : DeletePlan(1, pid)
    \/ \E week \in {NULL, 0, 3} : AddWeight(1, week, TRUE)
    \/ \E week \in {NULL, 3} : AddSteps(1, week, 500, NULL)
    \/ \E r \in inflight : StepsPlan(r)
    \/ \E r \in inflight : StepsCheck(r)
    \/ \E r \in inflight : StepsWrite(r)
    \/ \E week \in {NULL, 3} : AddWorkout(1, week)
    \/ \E week \in {NULL, 3}, ok \in BOOLEAN : AddMeal(1, week, ok)
    \/ \E r \in inflight : CreateEntry(r)

\* a plan of user 1 that is in its week 2 and the entries the user logs, at
\* one moment
SpecLog == Init /\ [][NextLog]_vars

NextRead ==
    \/ CreateCheck(1, -7 * DAY, 2)
    \/ \E r \in inflight : CreateWrite(r)
    \/ PauseFind(1)
    \/ \E r \in inflight : PauseSave(r)
    \/ GetPlan(1)
    \/ \E pid \in 1 .. MaxPlans : GetPlanById(1, pid)
    \/ GetAllPlans(1)
    \/ ProgressSummary(1)
    \/ (\A r \in inflight : r.op # "overview") /\ OverviewFind(1)
    \/ \E r \in inflight : OverviewRead(r)
    \/ \E pid \in 1 .. MaxPlans : DeletePlan(1, pid)
    \/ AddWeight(1, NULL, TRUE)
    \/ \E r \in inflight : CreateEntry(r)

\* the requests that read a plan in its week 2 or compute its week, at one
\* moment
SpecRead == Init /\ [][NextRead]_vars

NextUpdate ==
    \/ CreateCheck(1, -7 * DAY, 2)
    \/ \E r \in inflight : CreateWrite(r)
    \/ \E dp \in DietsIn, g \in GoalsIn, nw \in {0, 1, 3} :
          UpdateFind(1, 1, dp, g, nw)
    \/ \E r \in inflight : UpdateSave(r)

\* a plan of user 1 that is in its week 2, updated with every kind of body
SpecUpdate == Init /\ [][NextUpdate]_vars

\* the bodies of the PUT requests: a week, or other fields of the entry
EntryBodies ==
    {EntryBody(week, NULL, NULL, NULL) : week \in WeekArgs}
       \cup {EntryBody(3, NULL, 900, NULL), EntryBody(NULL, 2 * DAY, NULL, NULL),
              EntryBody(NULL, NULL, 100001, 7000)}

NextWeek ==
    \/ CreateCheck(1, -7 * DAY, 2)
    \/ \E r \in inflight : CreateWrite(r)
    \/ \E week \in WeekArgs : AddWeight(1, week, TRUE)
    \/ \E week \in WeekArgs : AddSteps(1, week, 500, NULL)
    \/ \E r \in inflight : StepsPlan(r)
    \/ \E r \in inflight : StepsCheck(r)
    \/ \E r \in inflight : StepsWrite(r)
    \/ \E week \in WeekArgs : AddWorkout(1, week)
    \/ \E week \in WeekArgs : AddMeal(1, week, TRUE)
    \/ \E r \in inflight : CreateEntry(r)
    \/ \E kind \in Kinds, e \in 1 .. MaxEntries, body \in EntryBodies :
          UpdateEntry(kind, 1, e, body)
    \/ \E kind \in Kinds, e \in 1 .. MaxEntries : DeleteEntry(kind, 1, e)
    \/ \E week \in WeekArgs : UploadWeights(1, week)
    \/ \E r \in inflight : InsertWeights(r)

\* entries logged, uploaded and updated with and without a plan
SpecWeek == Init /\ [][NextWeek]_vars

\* --------------------------------------------------- database connection
planvars == <<now, plans, resp, inflight, hist, entries>>

\* (mutant: a pending attempt is not reused)
ConnectCallNoReuse(c) ==
    /\ calls[c].pc = "idle"
    /\ IF cached.conn # NULL
       THEN /\ calls' = [calls EXCEPT ![c] = [IdleCall EXCEPT !.pc = "handled",
                                                             !.conn = cached.conn]]
            /\ UNCHANGED <<cached, attempts>>
       ELSE /\ attempts' = Put(attempts, Cardinality(DOMAIN attempts) + 1, "pending")
            /\ cached' = [cached EXCEPT !.promise = Cardinality(DOMAIN attempts) + 1]
            /\ calls' = [calls EXCEPT ![c] = [IdleCall EXCEPT !.pc = "waiting",
                                                             !.promise = cached'.promise]]
    /\ UNCHANGED planvars

\* a request enters the middleware, which calls connectDB: up to the await
\* (lines 12-33). With a cached connection connectDB returns it and the
\* middleware calls next(): the route handler runs
ConnectCall(c) ==
    /\ calls[c].pc = "idle"
    /\ IF cached.conn # NULL
       THEN /\ calls' = [calls EXCEPT ![c] = [IdleCall EXCEPT !.pc = "handled",
                                                             !.conn = cached.conn]]
            /\ UNCHANGED <<cached, attempts>>
       ELSE /\ IF cached.promise = NULL
               THEN /\ attempts' = Put(attempts, Cardinality(DOMAIN attempts) + 1,
                                       "pending")
                    /\ cached' = [cached EXCEPT
                                    !.promise = Cardinality(DOMAIN attempts) + 1]
               ELSE UNCHANGED <<cached, attempts>>
            /\ calls' = [calls EXCEPT ![c] = [IdleCall EXCEPT !.pc = "waiting",
                                                             !.promise = cached'.promise]]
    /\ UNCHANGED planvars

\* mongoose.connect of attempt a succeeds: the promise resolves (lines 22-25)
Resolve(a) ==
    /\ a \in DOMAIN attempts /\ attempts[a] = "pending"
    /\ attempts' = [attempts EXCEPT ![a] = "resolved"]
    /\ UNCHANGED <<cached, calls, planvars>>

\* (mutant: the failed attempt stays cached)
RejectKeepsPromise(a) ==
    /\ a \in DOMAIN attempts /\ attempts[a] = "pending"
    /\ attempts' = [attempts EXCEPT ![a] = "rejected"]
    /\ UNCHANGED <<cached, calls, planvars>>

\* mongoose.connect of attempt a fails: the catch clears the cached promise
\* and the promise rejects (lines 26-30)
Reject(a) ==
    /\ a \in DOMAIN attempts /\ attempts[a] = "pending"
    /\ attempts' = [attempts EXCEPT ![a] = "rejected"]
    /\ cached' = [cached EXCEPT !.promise = NULL]
    /\ UNCHANGED <<calls, planvars>>

\* the await of request c ends (line 33): with the connection, which is
\* cached and returned, and the middleware calls next(); or with the error,
\* and the middleware answers 500 (plan.js:781-786). The connection of
\* attempt a is written a
Continue(c) ==
    /\ calls[c].pc = "waiting"
    /\ attempts[calls[c].promise] # "pending"
    /\ IF attempts[calls[c].promise] = "resolved"
       THEN /\ cached' = [cached EXCEPT !.conn = calls[c].promise]
            /\ calls' = [calls EXCEPT ![c].pc = "handled",
                                      ![c].conn = calls[c].promise]
       ELSE /\ calls' = [calls EXCEPT ![c].pc = "failed", ![c].status = 500]
            /\ UNCHANGED cached
    /\ UNCHANGED <<attempts, planvars>>

NextDB ==
    \/ \E c \in Callers : ConnectCall(c)
    \/ \E a \in DOMAIN attempts : Resolve(a)
    \/ \E a \in DOMAIN attempts : Reject(a)
    \/ \E c \in Callers : Continue(c)

\* simultaneous requests in the connection middleware
SpecDB == Init /\ [][NextDB]_vars


\* the clock advances by one day
TickDay ==
    /\ now < MaxDays * DAY
    /\ now' = now + DAY
    /\ resp' = NoResp
    /\ UNCHANGED <<plans, inflight, hist, entries, dbvars>>

NextDays ==
    \/ TickDay
    \/ now = 0 /\ CreateCheck(1, 0, 4)
    \/ \E r \in inflight : CreateWrite(r)
    \/ GetPlan(1)
    \/ now = 9 * DAY /\ PauseFind(1)
    \/ \E r \in inflight : PauseSave(r)
    \/ now \in {12 * DAY, 14 * DAY} /\ ResumeFind(1)
    \/ \E r \in inflight : ResumeSave(r)

\* a plan of 4 weeks created on its start day 0 and followed day by day, with
\* pause requests on day 9 and resume requests on days 12 and 14
SpecDays == Init /\ [][NextDays]_vars

TypeOK ==
    /\ now \in 0 .. MaxTick * TickLen \cup 0 .. MaxDays * DAY
    /\ DOMAIN plans \subseteq 1 .. MaxPlans
    /\ DOMAIN hist = DOMAIN plans
    /\ Cardinality(inflight) <= MaxInflight
    /\ \A i \in DOMAIN plans :
         /\ plans[i].userId \in Users
         /\ plans[i].status \in {"active", "paused", "completed"}

\* ================================================================ claims
Live(u) == Matching(plans, u, LIVE)

Week(p) == calculateCurrentWeek(plans[p], now)

\* the last step was the request op, answered with status st
Answered(op, st) == resp.op = op /\ resp.status = st

\* the requests a step starts, and those it takes out of inflight
Started == inflight' \ inflight

Ended == inflight \ inflight'

\* the resume requests a step ends with a saved plan
Resumed == {r \in Ended : r.op = "resume" /\ resp' = Resp("resume", 200, r.id)}

\* C1: with requests handled one at a time, every user has at most one plan
\* whose status is active or paused.
C1_OneLivePlanPerUser == \A u \in Users : Cardinality(Live(u)) <= 1

\* a create was rejected while every user holds a plan, one of them paused
C1_Witness ==
    /\ Answered("create", 400)
    /\ \E p \in DOMAIN plans : plans[p].status = "paused"
    /\ \A u \in Users : Cardinality(Live(u)) = 1

\* C2: a create request that passed the existence check stores its plan
\* whatever plans were stored since the check, so that two interleaved creates
\* of one user leave two plans in status active or paused.
C2_WriteAfterCheckAlwaysStores ==
    [][\A r \in Ended :
         (/\ r.op = "create"
          /\ ValidWeeks(r.numberOfWeeks) /\ ValidStart(r.startDate))
            => \E p \in DOMAIN plans' \ DOMAIN plans :
                  /\ plans'[p].userId = r.user
                  /\ plans'[p].status = "active"]_vars

\* two plans of one user are active or paused
C2_Witness == \E u \in Users : Cardinality(Live(u)) >= 2

\* C3: after the current plan was fetched, it is not active and past its last
\* week (floor(elapsedDays / 7) + 1 > numberOfWeeks): the fetch completed it.
C3_FetchCompletesOverrunPlan ==
    (Answered("get", 200) /\ resp.id \in DOMAIN plans)
       => ~(/\ plans[resp.id].status = "active"
            /\ rawWeek(plans[resp.id], now) > plans[resp.id].numberOfWeeks)

\* C4: a paused plan has a pausedAt, and its stored and its reported week are
\* the week that was computed from elapsed time at the moment of the pause.
C4_PauseFreezesComputedWeek ==
    \A p \in DOMAIN plans :
       plans[p].status = "paused"
          => /\ plans[p].pausedAt # NULL
             /\ plans[p].currentWeek = hist[p].week
             /\ Week(p) = hist[p].week

\* C5: across any step that leaves a plan active its computed week does not
\* decrease, and across any step that leaves it paused the week is the same.
C5_WeekMonotoneWhileActive ==
    [][\A p \in DOMAIN plans \cap DOMAIN plans' :
         /\ (plans[p].status = "active" /\ plans'[p].status = "active")
               => calculateCurrentWeek(plans'[p], now')
                    >= calculateCurrentWeek(plans[p], now)
         /\ (plans[p].status = "paused" /\ plans'[p].status = "paused")
               => calculateCurrentWeek(plans'[p], now')
                    = calculateCurrentWeek(plans[p], now)]_vars

\* C6: the computed week of every plan is within 1 .. numberOfWeeks at every
\* time, and it is 1 while the start date is in the future.
C6_WeekWithinPlan ==
    \A p \in DOMAIN plans :
       /\ 1 <= Week(p)
       /\ Week(p) <= plans[p].numberOfWeeks
       /\ plans[p].startDate > now => Week(p) = 1

\* an active plan is past its last week by elapsed time: the clamp acts
C6_Witness ==
    \E p \in DOMAIN plans :
       /\ plans[p].status = "active"
       /\ rawWeek(plans[p], now) > plans[p].numberOfWeeks

\* C7 as stated: the week computed right after a successful create is 1.
C7_WeekOneAfterCreate ==
    Answered("create", 201) => Week(resp.id) = 1

\* C7 amended: right after a successful create the plan is active with no
\* paused days and a stored currentWeek of 1, and its computed week is 1 when
\* startDate is less than 7 days before the creation (or in the future), else
\* floor(days since startDate / 7) + 1 limited to numberOfWeeks.
C7_WeekAfterCreateByStartDate ==
    Answered("create", 201) =>
       LET plan == plans[resp.id]
           days == (now - plan.startDate) \div DAY
       IN  /\ plan.status = "active" /\ plan.pausedDays = 0
           /\ plan.currentWeek = 1
           /\ now - plan.startDate < WEEK_DAYS * DAY => Week(resp.id) = 1
           /\ now - plan.startDate >= WEEK_DAYS * DAY =>
                 Week(resp.id) = IF days \div WEEK_DAYS + 1 < plan.numberOfWeeks
                                 THEN days \div WEEK_DAYS + 1
                                 ELSE plan.numberOfWeeks

\* a plan was created with a start date 7 days or more in the past and more
\* than one week
C7_Witness ==
    /\ Answered("create", 201)
    /\ now - plans[resp.id].startDate >= WEEK_DAYS * DAY
    /\ plans[resp.id].numberOfWeeks > 1

\* C8: a create of a user who has an active or paused plan when the handler
\* looks for one is answered with the conflict error, stores nothing and
\* goes no further; a create of a user who has none goes on to the write,
\* which stores a new active plan of that user unless the body is invalid.
C8_CreateConflict ==
    [][/\ (resp'.op = "create" \/ Started # {}) =>
            \A u \in Users, sd \in StartDates, nw \in WeeksIn :
               CreateCheck(u, sd, nw) =>
                  IF Live(u) # {}
                  THEN /\ resp' = Resp("create", 400, 0)
                       /\ plans' = plans /\ inflight' = inflight
                  ELSE /\ resp' = NoResp /\ plans' = plans
                       /\ \E r \in Started :
                             /\ r.op = "create" /\ r.user = u
                             /\ r.startDate = sd /\ r.numberOfWeeks = nw
       /\ \A r \in Ended :
             r.op = "create" =>
                IF ValidWeeks(r.numberOfWeeks) /\ ValidStart(r.startDate)
                THEN /\ resp'.status = 201
                     /\ resp'.id \notin DOMAIN plans
                     /\ DOMAIN plans' = DOMAIN plans \cup {resp'.id}
                     /\ \A p \in DOMAIN plans : plans'[p] = plans[p]
                     /\ plans'[resp'.id].userId = r.user
                     /\ plans'[resp'.id].startDate = r.startDate
                     /\ plans'[resp'.id].numberOfWeeks = r.numberOfWeeks
                     /\ plans'[resp'.id].status = "active"
                ELSE resp'.status = 500 /\ plans' = plans]_vars

\* a create was rejected while no plan is paused: the caller's plan is active
C8_Witness ==
    /\ Answered("create", 400)
    /\ plans # << >>
    /\ \A p \in DOMAIN plans : plans[p].status = "active"

\* C9: a resume that is answered with the plan has set the status to active,
\* cleared pausedAt and added to the stored pausedDays the whole days between
\* the pausedAt it read and the time it computed them, which are 0 within the
\* first day.
C9_ResumeAddsWholeDays ==
    [][\A r \in Resumed :
         /\ plans'[r.id].status = "active"
         /\ plans'[r.id].pausedAt = NULL
         /\ plans'[r.id].pausedDays
              = plans[r.id].pausedDays + Floor(r.at - r.old.pausedAt, DAY)
         /\ r.at - r.old.pausedAt < DAY
               => plans'[r.id].pausedDays = plans[r.id].pausedDays]_vars

\* C10: a resume exactly D whole days after the pause adds D to pausedDays
\* and the week computed for its moment is the week the plan had at the
\* moment of pausing; stated for the plans that have at the resume the
\* numberOfWeeks they had at the pause.
C10_ResumeAfterWholeDays ==
    [][\A r \in Resumed :
         (/\ (r.at - r.old.pausedAt) % DAY = 0
          /\ plans[r.id].numberOfWeeks = hist[r.id].weeks) =>
            /\ plans'[r.id].pausedDays * DAY
                 = plans[r.id].pausedDays * DAY + (r.at - r.old.pausedAt)
            /\ calculateCurrentWeek(plans'[r.id], r.at) = hist[r.id].week]_vars

\* C11: a plan is reported completed by isCompleted() exactly when its week
\* by elapsed non-paused time, before clamping, exceeds numberOfWeeks (a plan
\* of 2 weeks is in week 2 and completed 20 days after its start).
C11_IsCompletedPastLastWeek ==
    \A p \in DOMAIN plans :
       plans[p].status = "active" =>
          /\ Week(p) = Clamp(rawWeek(plans[p], now), 1, plans[p].numberOfWeeks)
          /\ isCompleted(plans[p], now)
                <=> rawWeek(plans[p], now) > plans[p].numberOfWeeks

\* C12: a plan of 4 weeks that started at time 0 is in week 2 on day 7 when
\* it was never paused; the resume of day 14 that finds the plan paused since
\* day 9 and saves it as it found it adds 5 to pausedDays; with 5 paused days
\* the plan is in week 3 on day 21.
C12_PauseShiftsWeeks ==
    [][/\ \A p \in DOMAIN plans' :
            LET plan == plans'[p] IN
            (plan.startDate = 0 /\ plan.numberOfWeeks = 4) =>
               /\ (now' = 7 * DAY /\ plan.status = "active" /\ plan.pausedDays = 0)
                     => calculateCurrentWeek(plan, now') = 2
               /\ (now' = 21 * DAY /\ plan.status = "active" /\ plan.pausedDays = 5)
                     => calculateCurrentWeek(plan, now') = 3
       /\ \A r \in Resumed :
             (/\ r.at = 14 * DAY /\ r.old.pausedAt = 9 * DAY
              /\ plans[r.id] = r.old)
                => plans'[r.id].pausedDays = plans[r.id].pausedDays + 5]_vars

\* day 21 of a plan of 4 weeks that started at time 0 and has 5 paused days
C12_Witness ==
    /\ now = 21 * DAY
    /\ \E p \in DOMAIN plans :
         /\ plans[p].startDate = 0 /\ plans[p].numberOfWeeks = 4
         /\ plans[p].status = "active" /\ plans[p].pausedDays = 5

\* the week a plan has reached by its elapsed non-paused time: for a paused
\* plan, the week it had when it was paused
Reached(p) == IF plans[p].status = "paused" THEN hist[p].week ELSE Week(p)

\* C13: an update changes numberOfWeeks only to a value that is not below
\* the week the plan has reached by its elapsed non-paused time, whether the
\* plan is active or paused.
C13_UpdateNotBelowReachedWeek ==
    [][\A p \in DOMAIN plans \cap DOMAIN plans' :
         plans'[p].numberOfWeeks # plans[p].numberOfWeeks
            => plans'[p].numberOfWeeks >= Reached(p)]_vars

\* the requests of the logging create endpoints whose handler looks up the
\* plan in a step
Logged ==
    {r \in Started : /\ r.op \in Kinds /\ r.id # NULL
                     /\ (r.op = "steps" => r.found = NULL)}

\* request r is stamped as a request without a week: with the id and the
\* computed week of an active or paused plan of the caller, or with no plan
\* and week 1 when the caller has none
Stamped(r) ==
    IF Live(r.user) # {}
    THEN r.id \in Live(r.user) /\ r.week = Week(r.id)
    ELSE r.id = 0 /\ r.week = 1

\* the entries a step creates
Created == DOMAIN entries' \ DOMAIN entries

\* C14: a request without a week in its body is stamped, when the plan is
\* looked up, with the id and the week calculateCurrentWeek() gives for the
\* caller's active or paused plan, or with week 1 and no plan id when there
\* is none; the entry it creates belongs to the caller and carries that
\* stamp.
C14_EntryStampedFromPlan ==
    [][/\ \A r \in Logged : r.arg = NULL => Stamped(r)
       /\ \A r \in Ended :
             r.op \in Kinds =>
                \A e \in Created :
                   /\ entries'[e].userId = r.user
                   /\ entries'[e].planId = r.id
                   /\ entries'[e].week = r.week]_vars

\* an entry was stamped with the id of an active plan and its week 2, which
\* is neither the stored week of the plan nor a week of a request body
C14_Witness ==
    /\ resp.op \in Kinds /\ resp.status = 201
    /\ resp.id \in DOMAIN entries
    /\ entries[resp.id].planId \in DOMAIN plans
    /\ plans[entries[resp.id].planId].status = "active"
    /\ plans[entries[resp.id].planId].currentWeek = 1
    /\ entries[resp.id].week = 2

\* C15 as stated: an entry created by a request with a week in its body has
\* that week, whatever the week is.
C15_SuppliedWeekWins ==
    [][\A r \in Ended :
         (r.op \in Kinds /\ r.arg # NULL)
            => \A e \in Created : entries'[e].week = r.arg]_vars

\* C15 amended: an entry created by a request with a week other than 0 in its
\* body has that week; a week 0 counts as no week, and the request is stamped
\* as a request without a week.
C15_SuppliedNonzeroWeekWins ==
    [][/\ \A r \in Ended :
             (r.op \in Kinds /\ r.arg # NULL /\ r.arg # 0)
                => \A e \in Created : entries'[e].week = r.arg
       /\ \A r \in Logged : r.arg = 0 => Stamped(r)]_vars

\* a user whose plan is in week 2 has logged an entry with week 3
C15_Witness ==
    /\ resp.op \in Kinds /\ resp.status = 201
    /\ resp.id \in DOMAIN entries
    /\ entries[resp.id].week = 3
    /\ entries[resp.id].planId \in DOMAIN plans
    /\ Week(entries[resp.id].planId) = 2

\* C16: pausedDays of every plan is at least 0, and no step decreases it.
C16_PausedDaysMonotone ==
    [][/\ \A p \in DOMAIN plans' : plans'[p].pausedDays >= 0
       /\ \A p \in DOMAIN plans \cap DOMAIN plans' :
             plans'[p].pausedDays >= plans[p].pausedDays]_vars

\* C17: every stored plan has a start date and 1 <= numberOfWeeks <= 52.
C17_WeeksInRange ==
    \A p \in DOMAIN plans :
       /\ plans[p].numberOfWeeks >= 1
       /\ plans[p].numberOfWeeks <= 52
       /\ plans[p].startDate # NULL

\* the save of an update of plan 1, which is stored, failed: its
\* numberOfWeeks did not pass the validation
C17_Witness ==
    /\ Answered("update", 500)
    /\ 1 \in DOMAIN plans

\* C18: a pause by a user without an active plan, and a resume by a user
\* without a paused plan, is answered with not-found, changes no plan and
\* goes no further.
C18_PauseResumeNotFound ==
    [][(resp'.op \in {"pause", "resume"} \/ Started # {}) =>
         \A u \in Users :
            /\ (Matching(plans, u, {"active"}) = {} /\ PauseFind(u))
                  => /\ resp' = Resp("pause", 404, 0)
                     /\ plans' = plans /\ inflight' = inflight
            /\ (Matching(plans, u, {"paused"}) = {} /\ ResumeFind(u))
                  => /\ resp' = Resp("resume", 404, 0)
                     /\ plans' = plans /\ inflight' = inflight]_vars

\* a pause was answered with not-found at a time when the plan stored is one
\* that was paused earlier
C18_Witness ==
    /\ Answered("pause", 404)
    /\ plans # << >>
    /\ \A p \in DOMAIN plans :
          plans[p].status = "paused" /\ plans[p].pausedAt < now

\* a step of a request of user a on the plans
PlanStep(a) ==
    \/ CreateCheck(a, -6 * DAY, 2)
    \/ GetPlan(a)
    \/ PauseFind(a)
    \/ ResumeFind(a)
    \/ \E pid \in 1 .. MaxPlans : GetPlanById(a, pid)
    \/ \E pid \in 1 .. MaxPlans : DeletePlan(a, pid)
    \/ \E pid \in 1 .. MaxPlans : UpdateFind(a, pid, 1800, NoGoals, 0)
    \/ \E r \in inflight : r.user = a /\ Finish(r)

\* a step of a request of user a that names plan pid
ById(a, pid) ==
    \/ GetPlanById(a, pid)
    \/ DeletePlan(a, pid)
    \/ UpdateFind(a, pid, 1800, NoGoals, 0)

\* C19: a step of a request of user a leaves the plans of every other user
\* as they are and returns none of them; an update, delete or fetch by id
\* that names a plan of another user is answered with not-found and goes no
\* further.
C19_OtherUsersPlansUntouched ==
    [][\A a \in Users :
         /\ PlanStep(a) =>
               /\ \A p \in DOMAIN plans :
                     plans[p].userId # a
                        => p \in DOMAIN plans' /\ plans'[p] = plans[p]
               /\ resp'.id \in DOMAIN plans => plans[resp'.id].userId = a
               /\ resp'.id \in DOMAIN plans' => plans'[resp'.id].userId = a
               /\ \A r \in Started :
                     r.id \in DOMAIN plans => plans[r.id].userId = a
         /\ \A pid \in DOMAIN plans :
               (plans[pid].userId # a /\ ById(a, pid))
                  => resp'.status = 404 /\ inflight' = inflight]_vars

\* an update was answered with not-found although a plan has each id: the
\* plan named belongs to another user
C19_Witness ==
    /\ Answered("update", 404)
    /\ DOMAIN plans = 1 .. MaxPlans
    /\ \A u \in Users : Live(u) # {}

\* the routes of the plan router that answer in one step, and those that
\* answer in two
PlanOps == {"create", "get", "getById", "pause", "resume", "update", "delete"}

\* C20: no step of a request on the plans changes the log entries: whatever
\* it does to the plans, every entry is kept with its week and planId.
C20_PlanStepsKeepEntries ==
    [][(\/ resp'.op \in PlanOps
        \/ \E r \in Started \cup Ended : r.op \in PlanOps)
          => entries' = entries]_vars

\* a plan was deleted and an entry stamped with its id is still stored
C20_Witness ==
    /\ Answered("delete", 200)
    /\ \E e \in DOMAIN entries :
         entries[e].planId = resp.id /\ entries[e].planId \notin DOMAIN plans

\* C21: an update whose numberOfWeeks is below the week computed for the
\* plan succeeds and leaves numberOfWeeks as it was, while the dietPlan of
\* the body is stored and the goals of the body are merged: fields of the
\* body are stored and the other fields keep their values.
C21_LowWeeksIgnoredRestApplied ==
    [][\A r \in Ended :
         (/\ r.op = "update"
          /\ r.body.numberOfWeeks # 0
          /\ r.body.numberOfWeeks < calculateCurrentWeek(r.old, r.at)) =>
            /\ resp' = Resp("update", 200, r.id)
            /\ plans'[r.id].numberOfWeeks = plans[r.id].numberOfWeeks
            /\ plans'[r.id].dietPlan = IF r.body.dietPlan = NULL
                                       THEN plans[r.id].dietPlan
                                       ELSE r.body.dietPlan
            /\ \A f \in DOMAIN DefaultGoals :
                  plans'[r.id].goals[f] =
                     IF r.body.goals # NoGoals /\ f \in DOMAIN r.body.goals
                     THEN r.body.goals[f] ELSE plans[r.id].goals[f]
            /\ DOMAIN plans'[r.id].goals = DOMAIN DefaultGoals]_vars

\* C22: a create of a user who has an active or paused plan is answered with
\* status 409, and a create that stores a plan is answered with that plan.
C22_ConflictIs409 ==
    [][/\ (resp'.op = "create" \/ Started # {}) =>
            \A u \in Users :
               (/\ Live(u) # {}
                /\ \E sd \in StartDates, nw \in WeeksIn : CreateCheck(u, sd, nw))
                  => resp'.status = 409
       /\ \A r \in Ended :
             (r.op = "create" /\ plans' # plans) =>
                /\ resp'.status = 201
                /\ DOMAIN plans' \ DOMAIN plans = {resp'.id}]_vars

\* C23: a step of a request that reads a plan or logs an entry leaves
\* startDate, numberOfWeeks, pausedAt, pausedDays and currentWeek (and every
\* field but status) of every plan as they are, and deletes and adds no plan.
C23_ReadsWriteNoPlanField ==
    [][(\/ resp'.op \in {"get", "getAll", "getById", "progress", "overview"}
        \/ resp'.op \in Kinds
        \/ \E r \in Started \cup Ended : r.op \in Kinds \cup {"overview"})
          => /\ DOMAIN plans' = DOMAIN plans
             /\ \A p \in DOMAIN plans :
                   plans'[p] = [plans[p] EXCEPT !.status = plans'[p].status]]_vars

\* the current plan was fetched while its stored week 1 is not its computed
\* week 2
C23_Witness ==
    /\ Answered("get", 200)
    /\ plans[resp.id].currentWeek = 1
    /\ Week(resp.id) = 2

\* C24: the week computed right after a resume of a paused plan is not below
\* the week the plan had by elapsed time right before the pause, however
\* long the pause lasted, when numberOfWeeks is the same at the resume as at
\* the pause.
C24_ResumeNotInEarlierWeek ==
    [][\A r \in Resumed :
         (/\ plans[r.id].status = "paused"
          /\ plans[r.id].numberOfWeeks = hist[r.id].weeks)
            => calculateCurrentWeek(plans'[r.id], now') >= hist[r.id].week]_vars

\* C25: with requests handled one at a time, a plan has a pausedAt exactly
\* when its status is paused.
C25_PausedAtIffPaused ==
    \A p \in DOMAIN plans :
       plans[p].pausedAt # NULL <=> plans[p].status = "paused"

\* a plan that was paused and resumed before is paused again
C25_Witness ==
    \E p \in DOMAIN plans :
       /\ plans[p].status = "paused"
       /\ plans[p].pausedDays >= 1
       /\ plans[p].pausedAt = now

\* the steps entries of the collection es are one per user and date
OnePerDay(es) ==
    \A e1, e2 \in DOMAIN es :
       (/\ es[e1].kind = "steps" /\ es[e2].kind = "steps"
        /\ es[e1].userId = es[e2].userId
        /\ es[e1].date = es[e2].date) => e1 = e2

\* C26: there is at most one steps entry per user and date, also when the
\* requests interleave; the write of a request that found no entry of its
\* date is answered 400 and stores nothing when the date has an entry by
\* then, and stores the entry otherwise.
C26_OneStepsEntryPerDay ==
    [][/\ OnePerDay(entries')
       /\ \A r \in Ended :
             (/\ r.op = "steps" /\ r.found = 0
              /\ ValidCount(r.count) /\ ValidEntryWeek(r.week)) =>
                IF StepsOf(entries, r.user, r.date) # {}
                THEN resp'.status = 400 /\ entries' = entries
                ELSE /\ resp'.status = 201
                     /\ Cardinality(StepsOf(entries', r.user, r.date)) = 1]_vars

\* a request that found no entry of its date was answered 400: another
\* request had stored the entry of that date in between
C26_Witness ==
    /\ Answered("steps", 400)
    /\ entries # << >>

\* C27: the write of a POST /api/steps that found an entry of the day
\* creates and deletes no entry and changes nothing but count and goal of
\* that entry, and those to the count and the goal of the request: week and
\* planId stay as stamped, whatever week the body has and whatever plan the
\* user has by then.
C27_StepsUpdateKeepsStamp ==
    [][\A r \in Ended :
         (r.op = "steps" /\ r.found # NULL /\ r.found # 0) =>
            /\ DOMAIN entries' = DOMAIN entries
            /\ \A x \in DOMAIN entries \ {r.found} : entries'[x] = entries[x]
            /\ r.found \in DOMAIN entries =>
                  LET old == entries[r.found]
                      new == entries'[r.found]
                  IN  /\ new = [old EXCEPT !.count = new.count, !.goal = new.goal]
                      /\ new.count \in {old.count, r.count}
                      /\ new.goal \in {old.goal, r.goal}
                      /\ new # old => resp'.status = 201]_vars

\* the entry of the day, stamped with week 1 and no plan when the user had no
\* plan, was updated by a request with week 3 in its body while the user has
\* a plan in week 2
C27_Witness ==
    /\ Answered("steps", 201)
    /\ entries[resp.id].week = 1 /\ entries[resp.id].planId = 0
    /\ entries[resp.id].count = 900 /\ entries[resp.id].goal = 8000
    /\ \E p \in Live(entries[resp.id].userId) : Week(p) = 2

\* the attempts of the function as that are pending
Pending(as) == {a \in DOMAIN as : as[a] = "pending"}

\* C28: at most one connection attempt is pending; a request that waits
\* for a pending attempt waits for the cached one; once an attempt has
\* succeeded no attempt is started; and all requests that got a connection
\* got the same one.
C28_OneAttemptInFlight ==
    [][/\ Cardinality(Pending(attempts')) <= 1
       /\ \A c \in Callers :
             (calls'[c].pc = "waiting" /\ calls'[c].promise \in Pending(attempts'))
                => calls'[c].promise = cached'.promise
       /\ (\E a \in DOMAIN attempts : attempts[a] = "resolved")
             => DOMAIN attempts' = DOMAIN attempts
       /\ \A c, d \in Callers :
             (calls'[c].pc = "handled" /\ calls'[d].pc = "handled")
                => calls'[c].conn = calls'[d].conn /\ calls'[c].conn # NULL]_vars

\* two requests wait for the one attempt started so far, which is pending
C28_Witness ==
    /\ \E a \in Pending(attempts) :
          Cardinality({c \in Callers : calls[c].pc = "waiting"
                                         /\ calls[c].promise = a}) >= 2
    /\ Cardinality(DOMAIN attempts) = 1

\* C29: the failure of an attempt clears the cached attempt and leaves the
\* cached connection null; a request that waited for it is answered 500, for
\* good, without its handler being run; and a request that arrives when
\* nothing is cached starts a new attempt.
C29_FailureClearsCache ==
    [][/\ \A a \in DOMAIN attempts :
             (attempts[a] = "pending" /\ attempts'[a] = "rejected")
                => cached'.promise = NULL /\ cached'.conn = NULL
       /\ \A c \in Callers :
             /\ (/\ calls[c].pc = "waiting" /\ calls'[c] # calls[c]
                 /\ attempts[calls[c].promise] = "rejected")
                   => /\ calls'[c].pc = "failed" /\ calls'[c].status = 500
                      /\ calls'[c].conn = NULL
                      /\ cached' = cached
             /\ calls[c].pc = "failed" => calls'[c] = calls[c]
             /\ (/\ calls[c].pc = "idle" /\ calls'[c] # calls[c]
                 /\ \E a \in DOMAIN attempts : attempts[a] = "rejected"
                 /\ \A a \in DOMAIN attempts : attempts[a] = "rejected")
                   => /\ calls'[c].pc = "waiting"
                      /\ calls'[c].promise \notin DOMAIN attempts
                      /\ calls'[c].promise \in Pending(attempts')]_vars

\* two requests were answered 500 after the failure of the attempt they
\* waited for, and a later request waits for a new attempt
C29_Witness ==
    /\ \E c, d \in Callers :
          /\ c # d
          /\ calls[c].pc = "failed" /\ calls[d].pc = "failed"
          /\ calls[c].promise = calls[d].promise
    /\ \E c \in Callers :
          calls[c].pc = "waiting" /\ calls[c].promise \in Pending(attempts)

\* C30: every stored weight, steps, workout and meal entry has a week of at
\* least 1, whatever week the requests that created and updated it carried.
C30_EntryWeekAtLeastOne ==
    \A e \in DOMAIN entries : entries[e].week >= 1

\* an update carrying a week below 1 was refused, the entry stored having
\* got the computed week 2 of the plan in place of the week of the request
C30_Witness ==
    /\ resp = Resp("put", 500, 0)
    /\ \E e \in DOMAIN entries : entries[e].week = 2 /\ entries[e].planId # 0

====
